---- MODULE Spec2Model ----
(***************************************************************************)
(* Model of the judge runner (src/judge/judge.go): the submission lock     *)
(* protocol (TryLockSubmission / UnlockSubmission), the per-case verdict   *)
(* logic (SafeRun / Judge.TestCase) and AggregateResults.                  *)
(***************************************************************************)
EXTENDS Integers, Sequences, FiniteSets, TLC

(***************************************************************************)
(* Bounds and program constants                                            *)
(***************************************************************************)

\* Seconds the wall clock advances in one Tick.
TickSeconds == 20

\* Number of Ticks the model follows.
MaxTicks == 3

\* The wall clock when the model starts, in seconds; any real clock is far
\* beyond time.Time{} + LOCK_TIME.
ClockStart == 100

\* const LOCK_TIME = time.Minute, in seconds.
LOCK_TIME == 60

\* time.Time{}, the Ping a row is created with by FirstOrCreate.
ZeroTime == 0

\* The judge workers; a worker's identity is the name it passes.
Workers == {"A", "B"}

\* Submission ids (int32 primary keys, non-zero).
Ids == {1}

NoWorker == "-"

None == -1

MaxClock == ClockStart + MaxTicks * TickSeconds

VARIABLES
    clock,      \* time.Now(), in seconds
    table,      \* the submission_locks table: a sequence of committed rows
    rowLock,    \* rowLock[id]: the transaction holding the row lock (FOR UPDATE) on id's row
    pc,         \* pc[w]: where worker w is in its call
    op,         \* op[w]: the function w called, "TryLock" or "Unlock"
    argId,      \* argId[w]: the id argument of w's call
    now,        \* now[w]: the local now of TryLockSubmission
    lock,       \* lock[w]: the local lock row of the transaction
    ret,        \* ret[w]: what w's last call returned
    lastOk,     \* history: lastOk[id][w] is the clock when TryLockSubmission(id, w)
                \* last returned true (None: never, or released since)
    overlapOk   \* history: the other workers whose TryLockSubmission on the same id
                \* returned true while w's current call was in progress, and
                \* who have not unlocked since

lockVars == <<clock, table, rowLock, pc, op, argId, now, lock, ret, lastOk, overlapOk>>

VARIABLES
    jpc,            \* where the session is in TestCase: "idle", "checker", "done"
    subExec,        \* what the executor did in the submission's run
    chkExec,        \* what the executor did in the checker's run
    result,         \* TestCase's local result
    checkerResult,  \* TestCase's local checkerResult
    err,            \* TestCase's local err, as the last SafeRun returned it
    checkerRuns,    \* how often the current TestCase ran the checker
    caseResult,     \* the CaseResult TestCase returned
    caseErr,        \* the error TestCase returned ("nil": none)
    caseNo,         \* how many TestCase calls the session has begun
    ioErr,          \* the file operation of the current TestCase that failed ("none": none)
    files,          \* the contents of input.in, expect.out and actual.out
    handles,        \* the files the current TestCase opened and has not closed
    tempFiles,      \* the temporary files the current TestCase created that still exist
    atRun,          \* history: the files as the current submission's run began
    checkerRead,    \* history: the files as the current checker's run read them
    prevStatus      \* history: how the TestCase before the current one ended

judgeVars == <<jpc, subExec, chkExec, result, checkerResult, err, checkerRuns, caseResult, caseErr,
               caseNo, ioErr, files, handles, tempFiles, atRun, checkerRead, prevStatus>>

VARIABLES
    aggPc,      \* "start" before AggregateResults, "done" after it
    aggIn,      \* the argument results
    aggOut      \* the returned CaseResult

aggVars == <<aggPc, aggIn, aggOut>>

VARIABLES
    stripper,   \* an outputStripper
    written,    \* history: all the buffers written to stripper, one after another
    writeRet,   \* what the last Write returned: n and err
    writes      \* the number of Writes so far

stripVars == <<stripper, written, writeRet, writes>>

vars == <<lockVars, judgeVars, aggVars, stripVars>>

(***************************************************************************)
(* The lock table                                                          *)
(***************************************************************************)

\* SubmissionLock{}: the zero value of the local row.
EmptyLock == [ID |-> 0, Name |-> "", Ping |-> ZeroTime]

RowsOf(t, id) == SelectSeq(t, LAMBDA r : r.ID = id)

\* Mutant: the table has no primary key.
PrimaryKeyTakenNever(t, id) == FALSE

\* ID is the primary key: a second row with the same ID is refused.
PrimaryKeyTaken(t, id) == \E i \in 1..Len(t) : t[i].ID = id

UpdateRows(t, row) == [i \in 1..Len(t) |-> IF t[i].ID = row.ID THEN row ELSE t[i]]

\* tx.Save(lock): update the row with the primary key, insert when there is none.
Save(t, row) == IF \E i \in 1..Len(t) : t[i].ID = row.ID THEN UpdateRows(t, row) ELSE Append(t, row)

\* db.Delete(&SubmissionLock{ID: id})
DeleteRows(t, id) == SelectSeq(t, LAMBDA r : r.ID # id)

\* Mutant: another worker's lock never expires.
LockedByAnotherForever(l, name, n) == l.Name # name

\* lock.Name != name && now.Before(lock.Ping.Add(LOCK_TIME))
LockedByAnother(l, name, n) == l.Name # name /\ n < l.Ping + LOCK_TIME

\* Mutant: the row is saved before the check.
CheckAndSaveFirst(t, l, name, n) ==
    [table |-> Save(t, [l EXCEPT !.Name = name, !.Ping = n]),
     succeeded |-> ~LockedByAnother(l, name, n)]

\* The body of the transaction after FirstOrCreate: the check, and the save.
CheckAndSave(t, l, name, n) ==
    IF LockedByAnother(l, name, n)
    THEN [table |-> t, succeeded |-> FALSE]
    ELSE [table |-> Save(t, [l EXCEPT !.Name = name, !.Ping = n]), succeeded |-> TRUE]

(***************************************************************************)
(* TryLockSubmission and UnlockSubmission, step by step                    *)
(***************************************************************************)

InTryLock(w) == pc[w] \in {"select", "create", "save"}

\* Mutant: UnlockSubmission goes on to its Delete whatever TryLockSubmission
\* returned.
ReturnUnchecked(w, succeeded, e) ==
    /\ now' = [now EXCEPT ![w] = None]
    /\ lock' = [lock EXCEPT ![w] = EmptyLock]
    /\ IF op[w] = "TryLock"
       THEN /\ pc' = [pc EXCEPT ![w] = "idle"]
            /\ ret' = [ret EXCEPT ![w] = IF e THEN "error" ELSE IF succeeded THEN "true" ELSE "false"]
       ELSE /\ pc' = [pc EXCEPT ![w] = "delete"]
            /\ ret' = ret
    /\ UNCHANGED <<lastOk, overlapOk>>

\* The end of TryLockSubmission for worker w: a plain call returns, an
\* UnlockSubmission goes on to its Delete when it got the lock.
Return(w, succeeded, e) ==
    /\ now' = [now EXCEPT ![w] = None]
    /\ lock' = [lock EXCEPT ![w] = EmptyLock]
    /\ IF op[w] = "TryLock"
       THEN /\ pc' = [pc EXCEPT ![w] = "idle"]
            /\ ret' = [ret EXCEPT ![w] = IF e THEN "error" ELSE IF succeeded THEN "true" ELSE "false"]
       ELSE IF e
            THEN /\ pc' = [pc EXCEPT ![w] = "idle"]
                 /\ ret' = [ret EXCEPT ![w] = "error"]
            ELSE IF ~succeeded
                 THEN /\ pc' = [pc EXCEPT ![w] = "idle"]
                      /\ ret' = [ret EXCEPT ![w] = "failed to lock"]
                 ELSE /\ pc' = [pc EXCEPT ![w] = "delete"]
                      /\ ret' = ret
    /\ IF succeeded /\ ~e
       THEN /\ lastOk' = [lastOk EXCEPT ![argId[w]][w] = clock]
            /\ overlapOk' = [v \in Workers |->
                   IF v # w /\ InTryLock(v) /\ argId[v] = argId[w]
                   THEN overlapOk[v] \cup {w} ELSE overlapOk[v]]
       ELSE UNCHANGED <<lastOk, overlapOk>>

\* A worker calls TryLockSubmission(id, w) or UnlockSubmission(id, w);
\* TryLockSubmission starts with now := time.Now().
TryLockSubmissionBegin(w, o, id) ==
    /\ pc[w] = "idle"
    /\ pc' = [pc EXCEPT ![w] = "select"]
    /\ op' = [op EXCEPT ![w] = o]
    /\ argId' = [argId EXCEPT ![w] = id]
    /\ now' = [now EXCEPT ![w] = clock]
    /\ lock' = [lock EXCEPT ![w] = EmptyLock]
    /\ ret' = [ret EXCEPT ![w] = "none"]
    /\ overlapOk' = [overlapOk EXCEPT ![w] = {}]
    /\ UNCHANGED <<clock, table, rowLock, lastOk>>
    /\ UNCHANGED <<judgeVars, aggVars, stripVars>>

\* FirstOrCreate, the SELECT ... FOR UPDATE: it takes the row lock of the
\* row it finds, and waits while another transaction holds it.
FirstOrCreateSelect(w) ==
    /\ pc[w] = "select"
    /\ IF RowsOf(table, argId[w]) # <<>>
       THEN /\ rowLock[argId[w]] = NoWorker
            /\ rowLock' = [rowLock EXCEPT ![argId[w]] = w]
            /\ lock' = [lock EXCEPT ![w] = RowsOf(table, argId[w])[1]]
            /\ pc' = [pc EXCEPT ![w] = "save"]
       ELSE /\ pc' = [pc EXCEPT ![w] = "create"]
            /\ UNCHANGED <<rowLock, lock>>
    /\ UNCHANGED <<clock, table, op, argId, now, ret, lastOk, overlapOk>>
    /\ UNCHANGED <<judgeVars, aggVars, stripVars>>

\* FirstOrCreate found no row and inserts one with Attrs (Name, zero Ping);
\* the rest of the transaction follows under the new row's lock. The insert
\* fails on the primary key when a row was committed since the SELECT.
FirstOrCreateCreate(w) ==
    /\ pc[w] = "create"
    /\ IF PrimaryKeyTaken(table, argId[w])
       THEN /\ Return(w, FALSE, TRUE)
            /\ UNCHANGED table
       ELSE LET row == [ID |-> argId[w], Name |-> w, Ping |-> ZeroTime]
                r == CheckAndSave(Append(table, row), row, w, now[w])
            IN  /\ table' = r.table
                /\ Return(w, r.succeeded, FALSE)
    /\ UNCHANGED <<clock, rowLock, op, argId>>
    /\ UNCHANGED <<judgeVars, aggVars, stripVars>>

\* The transaction body on the row FirstOrCreate found, and the commit,
\* which releases the row lock.
TransactionCommit(w) ==
    /\ pc[w] = "save"
    /\ LET r == CheckAndSave(table, lock[w], w, now[w])
       IN  /\ table' = r.table
           /\ Return(w, r.succeeded, FALSE)
    /\ rowLock' = [rowLock EXCEPT ![argId[w]] = NoWorker]
    /\ UNCHANGED <<clock, op, argId>>
    /\ UNCHANGED <<judgeVars, aggVars, stripVars>>

\* UnlockSubmission's db.Delete, after TryLockSubmission returned true; it
\* waits for a transaction that holds the row lock.
UnlockSubmissionDelete(w) ==
    /\ pc[w] = "delete"
    /\ rowLock[argId[w]] = NoWorker
    /\ table' = DeleteRows(table, argId[w])
    /\ pc' = [pc EXCEPT ![w] = "idle"]
    /\ ret' = [ret EXCEPT ![w] = "nil"]
    /\ lastOk' = [lastOk EXCEPT ![argId[w]][w] = None]
    /\ overlapOk' = [v \in Workers |-> overlapOk[v] \ {w}]
    /\ UNCHANGED <<clock, rowLock, op, argId, now, lock>>
    /\ UNCHANGED <<judgeVars, aggVars, stripVars>>

\* Time passes.
Tick ==
    /\ clock + TickSeconds <= MaxClock
    /\ clock' = clock + TickSeconds
    /\ UNCHANGED <<table, rowLock, pc, op, argId, now, lock, ret, lastOk, overlapOk>>
    /\ UNCHANGED <<judgeVars, aggVars, stripVars>>

(***************************************************************************)
(* outputStripper                                                          *)
(***************************************************************************)

\* " ... stripped", as bytes.
StrippedSuffix == <<32, 46, 46, 46, 32, 115, 116, 114, 105, 112, 112, 101, 100>>

\* &outputStripper{N: n}
NewStripper(n) == [N |-> n, data |-> <<>>, overflow |-> FALSE]

\* Mutant: Write reports the bytes it kept, not the bytes it was given.
StripperWriteKept(s, b) ==
    IF s.N <= 20
    THEN [os |-> s, n |-> -1, err |-> "N is too small"]
    ELSE LET blen == Len(b)
             cap == s.N - 20 - Len(s.data)
             add == IF cap < blen THEN cap ELSE blen
         IN  [os |-> [N |-> s.N,
                      data |-> s.data \o SubSeq(b, 1, add),
                      overflow |-> IF cap < blen THEN TRUE ELSE s.overflow],
              n |-> add,
              err |-> "nil"]

\* func (os *outputStripper) Write(b []byte) (n int, err error)
StripperWrite(s, b) ==
    IF s.N <= 20
    THEN [os |-> s, n |-> -1, err |-> "N is too small"]
    ELSE LET blen == Len(b)
             cap == s.N - 20 - Len(s.data)
             add == IF cap < blen THEN cap ELSE blen
         IN  [os |-> [N |-> s.N,
                      data |-> s.data \o SubSeq(b, 1, add),
                      overflow |-> IF cap < blen THEN TRUE ELSE s.overflow],
              n |-> blen,
              err |-> "nil"]

\* Mutant: Bytes never appends the suffix.
StripperBytesPlain(s) == s.data

\* func (os *outputStripper) Bytes() []byte
StripperBytes(s) == IF s.overflow THEN s.data \o StrippedSuffix ELSE s.data

\* The most Writes the model makes to one outputStripper.
MaxWrites == 3

\* The capacities N the model gives an outputStripper: too small ones, ones
\* that keep one or two bytes, and ones that keep the suffix text whole.
StripperCaps == {19, 20, 21, 22, 33, 34}

\* The buffers written.
WriteBufs == {<<>>, <<101>>, <<101, 102>>, StrippedSuffix}

\* One Write(b) on the outputStripper.
OutputStripperWrite(b) ==
    /\ writes < MaxWrites
    /\ LET r == StripperWrite(stripper, b)
       IN  /\ stripper' = r.os
           /\ writeRet' = [n |-> r.n, err |-> r.err]
    /\ written' = written \o b
    /\ writes' = writes + 1
    /\ UNCHANGED <<lockVars, judgeVars, aggVars>>

(***************************************************************************)
(* SafeRun                                                                 *)
(***************************************************************************)

\* 1 << 11, the capacity of SafeRun's outputStripper.
StderrCap == 2048

\* The executor's exit code for a run that hit the time limit.
ExitTimeLimit == 124

\* Exit codes of the executor process.
ExitCodes == {0, 1, ExitTimeLimit}

\* The return codes the executor reports for the program it ran.
ReturnCodes == {-1, 0, 1, 2, 3, 4}

Times == {1, 2}

Memories == {3}

\* What the program writes to stderr.
Stderrs == {<<>>, <<101>>}

\* Result{}
ZeroResult == [ReturnCode |-> 0, Time |-> 0, Memory |-> 0, Tle |-> FALSE, Stderr |-> <<>>]

\* The records the executor writes to the result file.
JsonResults ==
    [ReturnCode : ReturnCodes, Time : Times, Memory : Memories, Tle : BOOLEAN, Stderr : {<<>>}]

\* The result file after the run: missing, not JSON, or a record.
ResultFiles ==
    {[kind |-> k, rec |-> ZeroResult] : k \in {"missing", "garbage"}}
        \cup {[kind |-> "json", rec |-> r] : r \in JsonResults}

\* What the environment does in one SafeRun: whether TempFile and LookPath
\* work, the executor's exit code (cmd.ProcessState.ExitCode(), -1 when the
\* process never ran), the result file it leaves and the stderr of the run.
ExecOutcomes ==
    {[fail |-> f, exit |-> -1, file |-> [kind |-> "missing", rec |-> ZeroResult], stderr |-> <<>>] :
        f \in {"tempfile", "lookpath"}}
        \cup [fail : {"none"}, exit : ExitCodes, file : ResultFiles, stderr : Stderrs]

NoExec == [fail |-> "none", exit |-> 0, file |-> [kind |-> "missing", rec |-> ZeroResult], stderr |-> <<>>]

\* Mutant: every non-zero exit code of the executor is an error, 124 too.
SafeRunZeroOnly(e) ==
    IF e.fail = "tempfile"
    THEN [result |-> ZeroResult, err |-> "tempfile", exit |-> e.exit]
    ELSE IF e.fail = "lookpath"
    THEN [result |-> ZeroResult, err |-> "executable file not found", exit |-> e.exit]
    ELSE LET os == StripperWrite(NewStripper(StderrCap), e.stderr).os
         IN  IF e.exit # 0
             THEN [result |-> [ReturnCode |-> -1, Time |-> -1, Memory |-> -1, Tle |-> FALSE, Stderr |-> <<>>],
                   err |-> "exit status", exit |-> e.exit]
             ELSE IF e.file.kind = "missing"
             THEN [result |-> ZeroResult, err |-> "no such file", exit |-> e.exit]
             ELSE IF e.file.kind = "garbage"
             THEN [result |-> ZeroResult, err |-> "invalid character", exit |-> e.exit]
             ELSE [result |-> [e.file.rec EXCEPT !.Stderr = StripperBytes(os)],
                   err |-> "nil", exit |-> e.exit]

\* func SafeRun(cmd, tl, overlay) (Result, error), with exit the
\* cmd.ProcessState.ExitCode() it leaves (-1 when the process never ran).
SafeRun(e) ==
    IF e.fail = "tempfile"
    THEN [result |-> ZeroResult, err |-> "tempfile", exit |-> e.exit]
    ELSE IF e.fail = "lookpath"
    THEN [result |-> ZeroResult, err |-> "executable file not found", exit |-> e.exit]
    ELSE LET os == StripperWrite(NewStripper(StderrCap), e.stderr).os
         IN  IF e.exit # 0 /\ e.exit # ExitTimeLimit
             THEN [result |-> [ReturnCode |-> -1, Time |-> -1, Memory |-> -1, Tle |-> FALSE, Stderr |-> <<>>],
                   err |-> "exit status", exit |-> e.exit]
             ELSE IF e.file.kind = "missing"
             THEN [result |-> ZeroResult, err |-> "no such file", exit |-> e.exit]
             ELSE IF e.file.kind = "garbage"
             THEN [result |-> ZeroResult, err |-> "invalid character", exit |-> e.exit]
             ELSE [result |-> [e.file.rec EXCEPT !.Stderr = StripperBytes(os)],
                   err |-> "nil", exit |-> e.exit]

(***************************************************************************)
(* Judge.TestCase                                                          *)
(***************************************************************************)

\* CaseResult{}
ZeroCaseResult == [CaseName |-> "", Status |-> "", Result |-> ZeroResult]

Case(status, r) == [CaseName |-> "", Status |-> status, Result |-> r]

BrokenError == "executor return non 0, 124 code"

\* Mutant: a failed SafeRun gives the verdict "Broken".
AfterSubmissionBrokenOnError(r, e, exit) ==
    IF e # "nil"
    THEN [next |-> "done", case |-> Case("Broken", r), err |-> e]
    ELSE IF r.Tle
    THEN [next |-> "done", case |-> Case("TLE", r), err |-> "nil"]
    ELSE IF exit # 0
    THEN [next |-> "done", case |-> Case("Broken", r), err |-> BrokenError]
    ELSE IF r.ReturnCode # 0
    THEN [next |-> "done", case |-> Case("RE", r), err |-> "nil"]
    ELSE [next |-> "checker", case |-> ZeroCaseResult, err |-> "nil"]

\* Mutant: the executor's exit code is looked at before tle.
AfterSubmissionExitFirst(r, e, exit) ==
    IF e # "nil"
    THEN [next |-> "done", case |-> ZeroCaseResult, err |-> e]
    ELSE IF exit # 0
    THEN [next |-> "done", case |-> Case("Broken", r), err |-> BrokenError]
    ELSE IF r.Tle
    THEN [next |-> "done", case |-> Case("TLE", r), err |-> "nil"]
    ELSE IF r.ReturnCode # 0
    THEN [next |-> "done", case |-> Case("RE", r), err |-> "nil"]
    ELSE [next |-> "checker", case |-> ZeroCaseResult, err |-> "nil"]

\* TestCase after the submission's SafeRun returned (r, err) and left
\* the executor's exit code: what it returns, or that it goes on to the checker.
AfterSubmission(r, e, exit) ==
    IF e # "nil"
    THEN [next |-> "done", case |-> ZeroCaseResult, err |-> e]
    ELSE IF r.Tle
    THEN [next |-> "done", case |-> Case("TLE", r), err |-> "nil"]
    ELSE IF exit # 0
    THEN [next |-> "done", case |-> Case("Broken", r), err |-> BrokenError]
    ELSE IF r.ReturnCode # 0
    THEN [next |-> "done", case |-> Case("RE", r), err |-> "nil"]
    ELSE [next |-> "checker", case |-> ZeroCaseResult, err |-> "nil"]

\* Mutant: only return codes above 3 are "Unknown".
AfterCheckerNegativeAccepted(r, cr, e, exit) ==
    IF e # "nil"
    THEN [case |-> ZeroCaseResult, err |-> e]
    ELSE IF cr.Tle
    THEN [case |-> Case("ITLE", r), err |-> "nil"]
    ELSE IF exit # 0
    THEN [case |-> Case("Broken", r), err |-> BrokenError]
    ELSE IF cr.ReturnCode = 1
    THEN [case |-> Case("WA", r), err |-> "nil"]
    ELSE IF cr.ReturnCode = 2
    THEN [case |-> Case("PE", r), err |-> "nil"]
    ELSE IF cr.ReturnCode = 3
    THEN [case |-> Case("Fail", r), err |-> "nil"]
    ELSE IF cr.ReturnCode > 3
    THEN [case |-> Case("Unknown", r), err |-> "nil"]
    ELSE [case |-> Case("AC", r), err |-> "nil"]

\* Mutant: the verdicts of the checker carry the checker's run result.
AfterCheckerOwnResult(r, cr, e, exit) ==
    IF e # "nil"
    THEN [case |-> ZeroCaseResult, err |-> e]
    ELSE IF cr.Tle
    THEN [case |-> Case("ITLE", cr), err |-> "nil"]
    ELSE IF exit # 0
    THEN [case |-> Case("Broken", cr), err |-> BrokenError]
    ELSE IF cr.ReturnCode = 1
    THEN [case |-> Case("WA", cr), err |-> "nil"]
    ELSE IF cr.ReturnCode = 2
    THEN [case |-> Case("PE", cr), err |-> "nil"]
    ELSE IF cr.ReturnCode = 3
    THEN [case |-> Case("Fail", cr), err |-> "nil"]
    ELSE IF cr.ReturnCode # 0
    THEN [case |-> Case("Unknown", cr), err |-> "nil"]
    ELSE [case |-> Case("AC", cr), err |-> "nil"]

\* TestCase after the checker's SafeRun returned (cr, err): what it returns,
\* r being the submission's result.
AfterChecker(r, cr, e, exit) ==
    IF e # "nil"
    THEN [case |-> ZeroCaseResult, err |-> e]
    ELSE IF cr.Tle
    THEN [case |-> Case("ITLE", r), err |-> "nil"]
    ELSE IF exit # 0
    THEN [case |-> Case("Broken", r), err |-> BrokenError]
    ELSE IF cr.ReturnCode = 1
    THEN [case |-> Case("WA", r), err |-> "nil"]
    ELSE IF cr.ReturnCode = 2
    THEN [case |-> Case("PE", r), err |-> "nil"]
    ELSE IF cr.ReturnCode = 3
    THEN [case |-> Case("Fail", r), err |-> "nil"]
    ELSE IF cr.ReturnCode # 0
    THEN [case |-> Case("Unknown", r), err |-> "nil"]
    ELSE [case |-> Case("AC", r), err |-> "nil"]

\* The most TestCase calls the model makes on one session.
MaxCalls == 2

FileNames == {"input.in", "expect.out", "actual.out"}

\* The contents of a file are a sequence of chunks, each the data of one
\* test case: its input, its expected output or the submission's output on it.
InFile(k) == <<[case |-> k, what |-> "input"]>>

ExpectFile(k) == <<[case |-> k, what |-> "expect"]>>

Stdout(k) == <<[case |-> k, what |-> "stdout"]>>

\* No file yet, or an empty one.
EmptyFiles == [f \in FileNames |-> <<>>]

\* The value of atRun and checkerRead when no run read the files.
NoRead == [f \in FileNames |-> <<[case |-> 0, what |-> "unread"]>>]

\* The file operations of TestCase before the submission's run, in order.
IoSteps == <<"input.create", "input.copy", "input.seek",
             "expect.create", "expect.copy", "expect.close", "actual.create">>

\* The operation that fails, or "none".
IoFailures == {IoSteps[i] : i \in 1..Len(IoSteps)} \cup {"none"}

\* The steps before StepOf(io) succeed.
StepOf(io) ==
    IF io = "none" THEN Len(IoSteps) + 1
    ELSE CHOOSE i \in 1..Len(IoSteps) : IoSteps[i] = io

\* Mutant: os.Create keeps what the file holds.
OsCreateKeeping(old) == old

\* os.Create: the file is created, or truncated if it exists.
OsCreate(old) == <<>>

\* The file operations of TestCase before the submission's run, on the files
\* fs, for the k-th case, with io the operation that fails: the files and the
\* open handles they leave.  A failed io.Copy leaves the file as os.Create
\* made it; expect is closed by expect.Close(), input and actual are not.
PrepareFiles(fs, io, k) ==
    LET at == StepOf(io)
    IN  [files |->
            [f \in FileNames |->
                IF f = "input.in"
                THEN IF at <= 1 THEN fs[f]
                     ELSE IF at = 2 THEN OsCreate(fs[f])
                     ELSE OsCreate(fs[f]) \o InFile(k)
                ELSE IF f = "expect.out"
                THEN IF at <= 4 THEN fs[f]
                     ELSE IF at = 5 THEN OsCreate(fs[f])
                     ELSE OsCreate(fs[f]) \o ExpectFile(k)
                ELSE IF at <= Len(IoSteps) THEN fs[f]
                     ELSE OsCreate(fs[f])],
         handles |->
            (IF at > 1 THEN {"input.in"} ELSE {})
            \cup (IF at = 5 THEN {"expect.out"} ELSE {})
            \cup (IF at > Len(IoSteps) THEN {"actual.out"} ELSE {})]

\* What SafeRun leaves behind on every path: the file ioutil.TempFile made,
\* if it made one, open and not removed.
SafeRunLeaves(e, name) == IF e.fail = "tempfile" THEN {} ELSE {name}

\* How a TestCase that returned ended, for the call after it.
EndOf(at, case) ==
    IF at = "idle" THEN "none"
    ELSE IF case.Status = "" THEN "error"
    ELSE IF case.Status \in {"TLE", "RE"} THEN case.Status
    ELSE "other"

\* The first phase of TestCase: input.in, expect.out and actual.out are
\* made, io being the file operation that fails, and the submission runs
\* under the executor, which behaves as e (which does nothing if it never runs).
TestCaseSubmission(io, e) ==
    /\ jpc \in {"idle", "done"}
    /\ io # "none" => e = NoExec
    /\ caseNo < MaxCalls
    /\ caseNo' = caseNo + 1
    /\ ioErr' = io
    /\ prevStatus' = EndOf(jpc, caseResult)
    /\ checkerRead' = NoRead
    /\ checkerResult' = ZeroResult
    /\ checkerRuns' = 0
    /\ chkExec' = NoExec
    /\ LET prep == PrepareFiles(files, io, caseNo + 1)
       IN  IF io # "none"
           THEN /\ subExec' = NoExec
                /\ result' = ZeroResult
                /\ err' = io
                /\ jpc' = "done"
                /\ caseResult' = ZeroCaseResult
                /\ caseErr' = io
                /\ files' = prep.files
                /\ handles' = prep.handles
                /\ tempFiles' = {}
                /\ atRun' = NoRead
           ELSE LET run == SafeRun(e)
                    a == AfterSubmission(run.result, run.err, run.exit)
                    left == SafeRunLeaves(e, "result of submission")
                IN  /\ subExec' = e
                    /\ result' = run.result
                    /\ err' = run.err
                    /\ jpc' = a.next
                    /\ caseResult' = a.case
                    /\ caseErr' = a.err
                    /\ atRun' = prep.files
                    /\ files' = [prep.files EXCEPT !["actual.out"] =
                                    IF e.fail = "none" THEN @ \o Stdout(caseNo + 1) ELSE @]
                    /\ handles' = (prep.handles \cup left)
                                    \ (IF a.next = "checker" THEN {"actual.out"} ELSE {})
                    /\ tempFiles' = left
    /\ UNCHANGED <<lockVars, aggVars, stripVars>>

\* The second phase of TestCase: the checker runs under the executor, which
\* behaves as e.
TestCaseChecker(e) ==
    /\ jpc = "checker"
    /\ LET run == SafeRun(e)
           a == AfterChecker(result, run.result, run.err, run.exit)
       IN  /\ chkExec' = e
           /\ checkerResult' = run.result
           /\ err' = run.err
           /\ checkerRuns' = checkerRuns + 1
           /\ jpc' = "done"
           /\ caseResult' = a.case
           /\ caseErr' = a.err
    /\ checkerRead' = IF e.fail = "none" THEN files ELSE NoRead
    /\ handles' = handles \cup SafeRunLeaves(e, "result of checker")
    /\ tempFiles' = tempFiles \cup SafeRunLeaves(e, "result of checker")
    /\ UNCHANGED <<subExec, result, caseNo, ioErr, files, atRun, prevStatus>>
    /\ UNCHANGED <<lockVars, aggVars, stripVars>>

(***************************************************************************)
(* AggregateResults                                                        *)
(***************************************************************************)

\* The longest list of case results the model aggregates.
MaxCases == 3

AggStatuses == {"AC", "WA", "TLE"}

AggTimes == {-2, 0, 3}

AggMemories == {-2, 5}

\* The case results AggregateResults is given.
AggCases ==
    {Case(st, [ZeroResult EXCEPT !.Time = t, !.Memory = m]) :
        st \in AggStatuses, t \in AggTimes, m \in AggMemories}

AggInputs == UNION {[1..n -> AggCases] : n \in 0..MaxCases}

\* Mutant: the status is overwritten by every case, AC or not.
AggregateStepLastStatus(ans, res) ==
    [ans EXCEPT
        !.Status = res.Status,
        !.Result.Time = IF @ < res.Result.Time THEN res.Result.Time ELSE @,
        !.Result.Memory = IF @ < res.Result.Memory THEN res.Result.Memory ELSE @]

\* Mutant: the loop compares the times only.
AggregateStepTimeOnly(ans, res) ==
    [ans EXCEPT
        !.Status = IF res.Status # "AC" THEN res.Status ELSE @,
        !.Result.Time = IF @ < res.Result.Time THEN res.Result.Time ELSE @]

\* One turn of the loop of AggregateResults.
AggregateStep(ans, res) ==
    [ans EXCEPT
        !.Status = IF res.Status # "AC" THEN res.Status ELSE @,
        !.Result.Time = IF @ < res.Result.Time THEN res.Result.Time ELSE @,
        !.Result.Memory = IF @ < res.Result.Memory THEN res.Result.Memory ELSE @]

AggregateStart ==
    [CaseName |-> "", Status |-> "AC",
     Result |-> [ReturnCode |-> -1, Time |-> -1, Memory |-> -1, Tle |-> FALSE, Stderr |-> <<>>]]

RECURSIVE AggregateFrom(_, _)
AggregateFrom(ans, results) ==
    IF results = <<>> THEN ans
    ELSE AggregateFrom(AggregateStep(ans, Head(results)), Tail(results))

\* func AggregateResults(results []CaseResult) CaseResult
AggregateResults(results) == AggregateFrom(AggregateStart, results)

Aggregate ==
    /\ aggPc = "start"
    /\ aggOut' = AggregateResults(aggIn)
    /\ aggPc' = "done"
    /\ UNCHANGED aggIn
    /\ UNCHANGED <<lockVars, judgeVars, stripVars>>

(***************************************************************************)
(* Specifications                                                          *)
(***************************************************************************)

JudgeInit ==
    /\ jpc = "idle"
    /\ subExec = NoExec
    /\ chkExec = NoExec
    /\ result = ZeroResult
    /\ checkerResult = ZeroResult
    /\ err = "nil"
    /\ checkerRuns = 0
    /\ caseResult = ZeroCaseResult
    /\ caseErr = "nil"
    /\ caseNo = 0
    /\ ioErr = "none"
    /\ files = EmptyFiles
    /\ handles = {}
    /\ tempFiles = {}
    /\ atRun = NoRead
    /\ checkerRead = NoRead
    /\ prevStatus = "none"

AggIdle ==
    /\ aggPc = "start"
    /\ aggIn = <<>>
    /\ aggOut = ZeroCaseResult

AggInit ==
    /\ aggPc = "start"
    /\ aggIn \in AggInputs
    /\ aggOut = ZeroCaseResult

StripIdle ==
    /\ stripper = NewStripper(StderrCap)
    /\ written = <<>>
    /\ writeRet = [n |-> 0, err |-> "nil"]
    /\ writes = 0

StripInit ==
    /\ stripper \in {NewStripper(n) : n \in StripperCaps}
    /\ written = <<>>
    /\ writeRet = [n |-> 0, err |-> "nil"]
    /\ writes = 0

LockInit ==
    /\ clock = ClockStart
    /\ table = <<>>
    /\ rowLock = [id \in Ids |-> NoWorker]
    /\ pc = [w \in Workers |-> "idle"]
    /\ op = [w \in Workers |-> "TryLock"]
    /\ argId = [w \in Workers |-> 1]
    /\ now = [w \in Workers |-> None]
    /\ lock = [w \in Workers |-> EmptyLock]
    /\ ret = [w \in Workers |-> "none"]
    /\ lastOk = [id \in Ids |-> [w \in Workers |-> None]]
    /\ overlapOk = [w \in Workers |-> {}]

\* The state after construction: no lock row, workers and session idle.
Init == LockInit /\ JudgeInit /\ AggIdle /\ StripIdle

\* The same, with the argument of AggregateResults drawn from AggInputs.
AggSpecInit == LockInit /\ JudgeInit /\ AggInit /\ StripIdle

\* The same, with an outputStripper of any capacity of StripperCaps.
StripSpecInit == LockInit /\ JudgeInit /\ AggIdle /\ StripInit

LockNext ==
    \/ \E w \in Workers, o \in {"TryLock", "Unlock"}, id \in Ids : TryLockSubmissionBegin(w, o, id)
    \/ \E w \in Workers : FirstOrCreateSelect(w)
    \/ \E w \in Workers : FirstOrCreateCreate(w)
    \/ \E w \in Workers : TransactionCommit(w)
    \/ \E w \in Workers : UnlockSubmissionDelete(w)
    \/ Tick

\* The workers of the lock protocol.
LockSpec == Init /\ [][LockNext]_vars

\* Worker w calls again.
Retry(w) ==
    \E o \in {"TryLock", "Unlock"}, id \in Ids : TryLockSubmissionBegin(w, o, id)

\* The steps of a call worker w has begun.
CallNext(w) ==
    \/ FirstOrCreateSelect(w)
    \/ FirstOrCreateCreate(w)
    \/ TransactionCommit(w)
    \/ UnlockSubmissionDelete(w)

\* The workers of the lock protocol, when time keeps advancing (up to
\* MaxClock), every call that has begun goes on when the database lets it,
\* and worker "B" keeps calling; worker "A" may stop calling for good.
LockFairSpec ==
    /\ Init
    /\ [][LockNext]_vars
    /\ WF_vars(Tick)
    /\ \A w \in Workers : WF_vars(CallNext(w))
    /\ WF_vars(Retry("B"))

JudgeNext ==
    \/ \E io \in IoFailures, e \in ExecOutcomes : TestCaseSubmission(io, e)
    \/ \E e \in ExecOutcomes : TestCaseChecker(e)

\* One judge session running test cases one after another.
JudgeSpec == Init /\ [][JudgeNext]_vars

AggNext == Aggregate

\* AggregateResults applied to every list of up to MaxCases case results.
AggSpec == AggSpecInit /\ [][AggNext]_vars

StripNext == \E b \in WriteBufs : OutputStripperWrite(b)

\* Up to MaxWrites Writes to one outputStripper.
StripSpec == StripSpecInit /\ [][StripNext]_vars

(***************************************************************************)
(* Properties of the lock protocol                                         *)
(***************************************************************************)

\* Worker w's TryLockSubmission returns true in this step.
ReturnsTrue(w) ==
    /\ InTryLock(w)
    /\ pc'[w] \in {"idle", "delete"}
    /\ (pc'[w] = "delete" \/ ret'[w] = "true")

\* Worker w's last TryLockSubmission returned true.
GotLock(w) ==
    \/ op[w] = "TryLock" /\ pc[w] = "idle" /\ ret[w] = "true"
    \/ op[w] = "Unlock" /\ (pc[w] = "delete" \/ (pc[w] = "idle" /\ ret[w] = "nil"))

\* The names whose lease on id is live: now < last_ping + LOCK_TIME.
LiveHolders(id) ==
    {table[i].Name : i \in {j \in 1..Len(table) : table[j].ID = id /\ clock < table[j].Ping + LOCK_TIME}}

\* C1: once TryLockSubmission(id, A) has returned true, a TryLockSubmission(id, B)
\* of another worker B returns true only when at least LOCK_TIME has passed
\* since the most recent successful TryLockSubmission(id, A) returned.
C1_ExclusiveForLockTimeAfterReturn ==
    [][\A b \in Workers : ReturnsTrue(b) =>
          \A a \in Workers \ {b} :
              \/ lastOk[argId[b]][a] = None
              \/ clock >= lastOk[argId[b]][a] + LOCK_TIME]_vars

\* C2: there is at most one lock row per submission id, and so at most one
\* holder name whose lease on the id is live.
C2_OneRowPerSubmission ==
    \A id \in Ids :
        /\ Len(RowsOf(table, id)) <= 1
        /\ Cardinality(LiveHolders(id)) <= 1

\* C2 witness: two workers raced to create the row of one id; one row was
\* committed and the other insert was refused.
C2_Witness ==
    \E w \in Workers, v \in Workers :
        /\ w # v
        /\ ret[w] = "error"
        /\ Len(RowsOf(table, argId[w])) = 1
        /\ LiveHolders(argId[w]) = {v}

\* C3: two TryLockSubmission calls of distinct workers for the same id that
\* overlap in time never both return true.
C3_ConcurrentCallsNeverBothTrue ==
    \A w \in Workers : GotLock(w) => overlapOk[w] = {}

\* C4: an UnlockSubmission(id, A) whose transaction finds the live lock of
\* another worker returns the error "failed to lock" and leaves the table as
\* it was; the Delete of an UnlockSubmission that got the lock leaves no row
\* for id.
C4_UnlockFailsOrDeletes ==
    [][\A w \in Workers : op[w] = "Unlock" =>
          /\ (/\ pc[w] = "save"
              /\ pc'[w] # "save"
              /\ \E i \in 1..Len(table) :
                     /\ table[i].ID = argId[w]
                     /\ table[i].Name # w
                     /\ clock < table[i].Ping + LOCK_TIME)
             => (ret'[w] = "failed to lock" /\ pc'[w] = "idle" /\ table' = table)
          /\ (pc[w] = "delete" /\ pc'[w] # "delete")
             => (ret'[w] = "nil" /\ RowsOf(table', argId[w]) = <<>>)]_vars

\* C4 witness: an UnlockSubmission failed against the live lock of another
\* worker, whose row is still there.
C4_Witness ==
    \E w \in Workers, v \in Workers :
        /\ w # v
        /\ op[w] = "Unlock"
        /\ pc[w] = "idle"
        /\ ret[w] = "failed to lock"
        /\ LiveHolders(argId[w]) = {v}

\* Worker w's TryLockSubmission returns false in this step.
ReturnsFalse(w) ==
    /\ InTryLock(w)
    /\ pc'[w] = "idle"
    /\ ret'[w] \in {"false", "failed to lock"}

\* The lock row for id is held by worker w with last ping p.
RowIs(t, id, w, p) == RowsOf(t, id) = <<[ID |-> id, Name |-> w, Ping |-> p]>>

\* Worker b's transaction examines a row whose lease has run out at the
\* clock reading of b's call.
FindsExpired(b) ==
    /\ pc[b] = "save"
    /\ pc'[b] # "save"
    /\ now[b] >= lock[b].Ping + LOCK_TIME

\* The lock on id is held by a with a last ping that is LOCK_TIME old before
\* the clock of the model stops.
HeldUntilExpiry(a, id) ==
    \E p \in ClockStart..(MaxClock - LOCK_TIME) : RowIs(table, id, a, p)

\* C15: a TryLockSubmission(id, B) whose clock reading now is at least
\* LOCK_TIME after the last_ping of the row it finds returns true and leaves
\* the row with holder B and last_ping = now; and if the holder A of the lock
\* on id stops calling while time keeps advancing and another worker B keeps
\* retrying, B eventually gets true and the row is no longer A's.
C15_CrashRecovery ==
    /\ [][\A b \in Workers : FindsExpired(b) =>
             /\ ReturnsTrue(b)
             /\ RowIs(table', argId[b], b, now[b])]_vars
    /\ \A id \in Ids :
          (HeldUntilExpiry("A", id) /\ [](pc["A"] = "idle"))
              ~> (GotLock("B") /\ ~\E p \in ClockStart..MaxClock : RowIs(table, id, "A", p))

\* C15 witness: B's TryLockSubmission returned true on a lock that A got
\* and never released, with a clock reading LOCK_TIME or more after A's
\* last successful return.
C15_Witness ==
    \E a \in Workers : \E b \in Workers \ {a} : \E id \in Ids :
        /\ lastOk[id][a] # None
        /\ op[b] = "TryLock"
        /\ pc[b] = "idle"
        /\ ret[b] = "true"
        /\ \E p \in (lastOk[id][a] + LOCK_TIME)..MaxClock : RowIs(table, id, b, p)

\* C16 as the specification states it, for the holder: a TryLockSubmission(id, A)
\* that finds the row's holder equal to A returns true and sets last_ping to
\* the caller's now, and a worker whose last TryLockSubmission returned true
\* less than LOCK_TIME ago, and which has not unlocked, does not get false.
C16_HeartbeatNeverFails ==
    [][\A a \in Workers :
          /\ (pc[a] = "save" /\ pc'[a] # "save" /\ lock[a].Name = a) =>
                 /\ ReturnsTrue(a)
                 /\ RowIs(table', argId[a], a, now[a])
          /\ (ReturnsFalse(a) /\ lastOk[argId[a]][a] # None) =>
                 clock >= lastOk[argId[a]][a] + LOCK_TIME]_vars

\* C19: a TryLockSubmission that returns false leaves the lock table as it
\* is: the step that returns false changes no row, and a step that changes
\* the table is the return of true of a TryLockSubmission or the Delete of an
\* UnlockSubmission.
C19_FalseLeavesTableUnchanged ==
    [][/\ \A w \in Workers : ReturnsFalse(w) => table' = table
       /\ table' # table =>
             \E w \in Workers :
                 \/ ReturnsTrue(w)
                 \/ pc[w] = "delete" /\ pc'[w] = "idle"]_vars

\* C19 witness: B's TryLockSubmission returned false, and the row is A's
\* with a live lease.
C19_Witness ==
    \E a \in Workers : \E b \in Workers \ {a} :
        /\ op[b] = "TryLock"
        /\ pc[b] = "idle"
        /\ ret[b] = "false"
        /\ LiveHolders(argId[b]) = {a}

\* C20 as the specification states it: the Delete of UnlockSubmission(id, A)
\* never removes a row whose holder is another worker with a live lease.
C20_DeleteSparesLiveLockOfAnother ==
    [][\A w \in Workers :
          (pc[w] = "delete" /\ pc'[w] = "idle") =>
              ~\E i \in 1..Len(table) :
                  /\ table[i].ID = argId[w]
                  /\ table[i].Name # w
                  /\ clock < table[i].Ping + LOCK_TIME]_vars

(***************************************************************************)
(* Properties of Judge.TestCase                                            *)
(***************************************************************************)

\* The executor's exit code in the run TestCase judged last.
LastExit == IF checkerRuns = 0 THEN subExec.exit ELSE chkExec.exit

\* TestCase returned after a SafeRun that failed while the executor's exit
\* code was not 124.
RunnerFailed == jpc = "done" /\ ioErr = "none" /\ err # "nil" /\ LastExit # 124

C6_BrokenOnlyOnOtherExitCodes ==
    (jpc = "done" /\ caseResult.Status = "Broken") => LastExit \notin {0, 124}

\* C7: when the submission's run result has tle = true the verdict is "TLE"
\* and the checker is not run; the checker is run only after the submission's
\* run returned no error, tle = false, executor exit code 0 and return code 0.
C7_TleFirstAndCheckerOnlyAfterCleanRun ==
    /\ (jpc = "done" /\ checkerRuns = 0 /\ err = "nil" /\ result.Tle)
           => (caseResult.Status = "TLE" /\ caseErr = "nil")
    /\ (jpc # "idle" /\ subExec.fail = "none" /\ subExec.exit \in {0, 124}
           /\ subExec.file.kind = "json" /\ subExec.file.rec.Tle)
           => (jpc = "done" /\ checkerRuns = 0 /\ caseResult.Status = "TLE")
    /\ (jpc = "checker" \/ checkerRuns > 0)
           => /\ subExec.fail = "none"
              /\ subExec.file.kind = "json"
              /\ subExec.exit = 0
              /\ ~result.Tle
              /\ result.ReturnCode = 0

\* C7 witness: a run with tle = true, a non-zero return code and executor
\* exit code 124 was judged TLE.
C7_Witness ==
    /\ jpc = "done"
    /\ caseResult.Status = "TLE"
    /\ result.Tle
    /\ result.ReturnCode # 0
    /\ subExec.exit = 124
    /\ checkerRuns = 0

\* The verdict the checker's result stands for.
CheckerVerdict(cr) ==
    IF cr.Tle THEN "ITLE"
    ELSE CASE cr.ReturnCode = 0 -> "AC"
           [] cr.ReturnCode = 1 -> "WA"
           [] cr.ReturnCode = 2 -> "PE"
           [] cr.ReturnCode = 3 -> "Fail"
           [] OTHER -> "Unknown"

\* C8: when the checker's run succeeds at runner level with executor exit
\* code 0, the verdict is ITLE for tle = true, else AC, WA, PE, Fail for the
\* return codes 0, 1, 2, 3 and Unknown for every other one, with a nil error.
C8_CheckerVerdictTotal ==
    (jpc = "done" /\ checkerRuns = 1 /\ err = "nil" /\ chkExec.exit = 0)
        => (caseResult.Status = CheckerVerdict(checkerResult) /\ caseErr = "nil")

\* C8 witness: a checker that returned a negative code was judged Unknown.
C8_Witness ==
    /\ jpc = "done"
    /\ checkerRuns = 1
    /\ err = "nil"
    /\ chkExec.exit = 0
    /\ ~checkerResult.Tle
    /\ checkerResult.ReturnCode < 0
    /\ caseResult.Status = "Unknown"

\* C9: every verdict TestCase returns carries the submission's run result
\* (return code, time, memory, tle, stderr), never the checker's.
C9_ResultIsTheSubmissions ==
    (jpc = "done" /\ caseResult.Status # "")
        => /\ caseResult.Result = result
           /\ caseResult.Result.ReturnCode = subExec.file.rec.ReturnCode
           /\ caseResult.Result.Time = subExec.file.rec.Time
           /\ caseResult.Result.Memory = subExec.file.rec.Memory
           /\ caseResult.Result.Tle = subExec.file.rec.Tle
           /\ caseResult.Result.Stderr = subExec.stderr

\* C9 witness: a verdict of the checker phase, where the checker's run
\* differs from the submission's in time and stderr.
C9_Witness ==
    /\ jpc = "done"
    /\ checkerRuns = 1
    /\ caseResult.Status = "WA"
    /\ checkerResult.Time # result.Time
    /\ checkerResult.Stderr # result.Stderr

(***************************************************************************)
(* Properties of SafeRun and of the files of TestCase                      *)
(***************************************************************************)

\* The current TestCase called SafeRun.
SafeRunCalled == jpc # "idle" /\ ioErr = "none"

\* The executor's behaviour in the last SafeRun, and what that SafeRun returned.
LastExec == IF checkerRuns = 0 THEN subExec ELSE chkExec

LastResult == IF checkerRuns = 0 THEN result ELSE checkerResult

\* C13 as the specification states it: when TestCase has returned, by
\* whatever path, the temporary result files of its SafeRun calls are removed
\* and every file it or SafeRun opened (input.in, expect.out, actual.out, the
\* temporary files) is closed.
C13_ReleasedOnReturn ==
    jpc = "done" => handles = {} /\ tempFiles = {}

\* C14: SafeRun returns Result{-1, -1, -1} with an error exactly when the
\* executor ran and exited with a code other than 0 and 124; when it exited
\* with 0 or 124, SafeRun returns the record of the result file with the
\* captured stderr and no error if the file holds a record, and an error if
\* the file is missing or is not a record.
C14_SafeRunExitCodes ==
    SafeRunCalled =>
        /\ (/\ LastResult = [ReturnCode |-> -1, Time |-> -1, Memory |-> -1,
                              Tle |-> FALSE, Stderr |-> <<>>]
            /\ err # "nil")
              <=> (LastExec.fail = "none" /\ LastExec.exit \notin {0, ExitTimeLimit})
        /\ (LastExec.fail = "none" /\ LastExec.exit \in {0, ExitTimeLimit}) =>
              IF LastExec.file.kind = "json"
              THEN /\ err = "nil"
                   /\ LastResult = [LastExec.file.rec EXCEPT !.Stderr = LastExec.stderr]
              ELSE err # "nil"

\* C14 witness: the executor exited with 124 and left a record, which SafeRun
\* returned with the captured stderr and without error.
C14_Witness ==
    /\ SafeRunCalled
    /\ LastExec.fail = "none"
    /\ LastExec.exit = ExitTimeLimit
    /\ LastExec.file.kind = "json"
    /\ err = "nil"
    /\ LastResult.Time = 2
    /\ LastResult.Stderr = <<101>>

\* C18: in every TestCase call that gets as far as the submission's run,
\* input.in and expect.out hold that case's data and actual.out is empty when
\* the run begins, and the files the checker reads hold that case's input,
\* expected output and submission output and nothing of an earlier case.
C18_FilesAreThisCases ==
    /\ SafeRunCalled =>
          atRun = [f \in FileNames |->
                     IF f = "input.in" THEN InFile(caseNo)
                     ELSE IF f = "expect.out" THEN ExpectFile(caseNo)
                     ELSE <<>>]
    /\ checkerRead # NoRead =>
          checkerRead = [f \in FileNames |->
                           IF f = "input.in" THEN InFile(caseNo)
                           ELSE IF f = "expect.out" THEN ExpectFile(caseNo)
                           ELSE Stdout(caseNo)]

\* C18 witness: the checker ran on the second case of a session whose first
\* case ended with the verdict TLE.
C18_Witness ==
    /\ caseNo = 2
    /\ prevStatus = "TLE"
    /\ checkerRead # NoRead
    /\ caseResult.Status = "AC"

(***************************************************************************)
(* Properties of AggregateResults                                          *)
(***************************************************************************)

NonAC(cs) == {i \in 1..Len(cs) : cs[i].Status # "AC"}

\* The greatest element of a non-empty set of numbers.
Last(S) == CHOOSE i \in S : \A j \in S : j <= i

\* C10: AggregateResults(cs).Status is "AC" exactly when every element of cs
\* has status "AC", and otherwise it is the status of the last non-AC element.
C10_AggregateStatus ==
    aggPc = "done" =>
        /\ (aggOut.Status = "AC") <=> (\A i \in 1..Len(aggIn) : aggIn[i].Status = "AC")
        /\ NonAC(aggIn) # {} => aggOut.Status = aggIn[Last(NonAC(aggIn))].Status

\* C10 witness: two non-AC cases of different kinds, followed by an AC case.
C10_Witness ==
    /\ aggPc = "done"
    /\ Len(aggIn) = 3
    /\ aggIn[1].Status = "TLE"
    /\ aggIn[2].Status = "WA"
    /\ aggIn[3].Status = "AC"
    /\ aggOut.Status = "WA"

\* The greatest of the numbers f[1], f[2], ... and of floor.
MaxOf(f, floor) ==
    CHOOSE m \in {floor} \cup {f[i] : i \in DOMAIN f} :
        \A x \in {floor} \cup {f[i] : i \in DOMAIN f} : x <= m

CaseTimes(cs) == [i \in 1..Len(cs) |-> cs[i].Result.Time]

CaseMemories(cs) == [i \in 1..Len(cs) |-> cs[i].Result.Memory]

\* C11 as the specification states it: the aggregate's Time and Memory are at
\* least those of every element, they are the greatest Time and the greatest
\* Memory of the elements when there is an element, and both are -1 when
\* there is none.
C11_AsStated ==
    aggPc = "done" =>
        /\ \A i \in 1..Len(aggIn) :
              /\ aggOut.Result.Time >= aggIn[i].Result.Time
              /\ aggOut.Result.Memory >= aggIn[i].Result.Memory
        /\ aggIn # <<>> =>
              /\ aggOut.Result.Time = MaxOf(CaseTimes(aggIn), aggIn[1].Result.Time)
              /\ aggOut.Result.Memory = MaxOf(CaseMemories(aggIn), aggIn[1].Result.Memory)
        /\ aggIn = <<>> => aggOut.Result.Time = -1 /\ aggOut.Result.Memory = -1

\* C11: AggregateResults(cs).Time is the greatest of -1 and the Times of the
\* elements of cs, and AggregateResults(cs).Memory the greatest of -1 and their
\* Memories: at least every element's, -1 for the empty list, and the
\* elements' own greatest value only when that value is -1 or more.
C11_AggregateTimeMemory ==
    aggPc = "done" =>
        /\ aggOut.Result.Time = MaxOf(CaseTimes(aggIn), -1)
        /\ aggOut.Result.Memory = MaxOf(CaseMemories(aggIn), -1)

\* C11 witness: a list of one case whose time and memory are below -1, and
\* an aggregate that has neither.
C11_Witness ==
    /\ aggPc = "done"
    /\ Len(aggIn) = 1
    /\ aggIn[1].Result.Time = -2
    /\ aggIn[1].Result.Memory = -2
    /\ aggOut.Result.Time = -1
    /\ aggOut.Result.Memory = -1

(***************************************************************************)
(* Properties of outputStripper                                            *)
(***************************************************************************)

\* B ends with the bytes of suffix.
EndsWith(B, suffix) ==
    /\ Len(B) >= Len(suffix)
    /\ SubSeq(B, Len(B) - Len(suffix) + 1, Len(B)) = suffix

\* At least one of the bytes written was not kept.
Discarded == Len(written) > Len(stripper.data)

\* C12 as the specification states it: with N > 20, after any Writes, Bytes()
\* is at most N bytes long, and it ends with " ... stripped" exactly when a
\* byte was discarded.
C12_SuffixIffDiscarded ==
    stripper.N > 20 =>
        /\ Len(StripperBytes(stripper)) <= stripper.N
        /\ EndsWith(StripperBytes(stripper), StrippedSuffix) <=> Discarded

\* C12: with N > 20, after any Writes, Bytes() is at most N bytes long; it ends
\* with " ... stripped" whenever a byte was discarded; when none was, it is
\* the bytes written and nothing else, so that it ends with " ... stripped"
\* only if the bytes written do.
C12_SuffixWhenDiscarded ==
    stripper.N > 20 =>
        /\ Len(StripperBytes(stripper)) <= stripper.N
        /\ Discarded => EndsWith(StripperBytes(stripper), StrippedSuffix)
        /\ ~Discarded => StripperBytes(stripper) = written
        /\ EndsWith(StripperBytes(stripper), StrippedSuffix) =>
               Discarded \/ EndsWith(written, StrippedSuffix)

\* C12 witness: exactly N - 20 bytes were written, they are the suffix text,
\* all of them were kept, and Bytes() ends with the suffix text.
C12_Witness ==
    /\ stripper.N > 20
    /\ writes > 0
    /\ Len(written) = stripper.N - 20
    /\ ~Discarded
    /\ ~stripper.overflow
    /\ EndsWith(StripperBytes(stripper), StrippedSuffix)

\* The smaller of two numbers.
Min(a, b) == IF a < b THEN a ELSE b

\* C17: with N > 20, a Write of a buffer returns the buffer's length and no
\* error, the data kept are the first min(total, N - 20) bytes of all the
\* bytes written, and overflow, once set, stays set; with N <= 20, a Write
\* returns an error and nothing is kept.
C17_WriteReturnsLengthAndKeepsPrefix ==
    [][ IF stripper.N > 20
        THEN /\ writeRet' = [n |-> Len(written') - Len(written), err |-> "nil"]
             /\ stripper'.data =
                    SubSeq(written', 1, Min(Len(written'), stripper.N - 20))
             /\ stripper.overflow => stripper'.overflow
             /\ stripper'.N = stripper.N
        ELSE /\ writeRet'.err # "nil"
             /\ stripper'.data = <<>>
      ]_vars

\* C17 witness: a Write of thirteen bytes after overflow was set: it returns
\* 13, and the two bytes kept are still the first two bytes written.
C17_Witness ==
    /\ stripper.N = 22
    /\ stripper.overflow
    /\ writes = MaxWrites
    /\ writeRet = [n |-> Len(StrippedSuffix), err |-> "nil"]
    /\ EndsWith(written, StrippedSuffix)
    /\ stripper.data = <<101, 102>>

====
